---------------------------- MODULE Spec2Model ----------------------------
(***************************************************************************)
(* Model of the DuckDuckGo skill (src/__init__.py): the module-level       *)
(* split_sentences, and DuckduckgoSkill's format_related, query_ddg,       *)
(* extract_topic, CQS_match_query_phrase and handle_ask_ducky.             *)
(*                                                                         *)
(* A Python str is a sequence of one-character strings; None, a returned   *)
(* value and a raised exception are records told apart by their "kind".    *)
(***************************************************************************)
EXTENDS Integers, Sequences, FiniteSets, TLC

VARIABLES
    translated_question_words,  \* self.translated_question_words (line 56)
    translated_question_verbs,  \* self.translated_question_verbs (line 57)
    translated_articles,        \* self.translated_articles (line 58)
    translated_start_words,     \* self.translated_start_words (line 59)
    sorted_vocab,               \* self.sorted_vocab (line 54)
    pc,                         \* position of the running invocation
    entry,                      \* the entry point that is running
    utt,                        \* the entry point's argument
    noun_i, verb_i,             \* CQS_match_query_phrase: loop position
    query,                      \* query_ddg's argument
    primary,                    \* what ddg.query(query) gave (line 131)
    detail,                     \* what the detail fetch gave (lines 145-149)
    response,                   \* query_ddg's local `response`
    answer,                     \* outcome of the last query_ddg call
    http_calls,                 \* HTTP calls issued by this invocation
    spoken,                     \* speak_dialog / speak calls of this invocation
    result,                     \* what the entry point returned
    text, sents,                \* split_sentences: argument and outcome
    topic,                      \* extract_topic: outcome
    abstract, ans, last_word    \* format_related: argument and locals

vars == <<translated_question_words, translated_question_verbs,
          translated_articles, translated_start_words, sorted_vocab,
          pc, entry, utt, noun_i, verb_i, query, primary, detail, response,
          answer, http_calls, spoken, result, text, sents, topic, abstract,
          ans, last_word>>

---------------------------------------------------------------------------
(* Python values *)

None == [kind |-> "None"]
Str(s) == [kind |-> "str", text |-> s]
Return(v) == [kind |-> "return", value |-> v]
Raise(e) == [kind |-> "raise", exc |-> e]
Hang == [kind |-> "hang"]

---------------------------------------------------------------------------
(* str operations, computed as CPython computes them *)

Lowercase == <<"a","b","c","d","e","f","g","h","i","j","k","l","m",
               "n","o","p","q","r","s","t","u","v","w","x","y","z">>
Uppercase == <<"A","B","C","D","E","F","G","H","I","J","K","L","M",
               "N","O","P","Q","R","S","T","U","V","W","X","Y","Z">>

IsLower(c) == \E i \in 1..26 : Lowercase[i] = c
IsUpper(c) == \E i \in 1..26 : Uppercase[i] = c
IsCased(c) == IsLower(c) \/ IsUpper(c)

char_lower(c) ==
    IF IsUpper(c) THEN Lowercase[CHOOSE i \in 1..26 : Uppercase[i] = c] ELSE c
char_upper(c) ==
    IF IsLower(c) THEN Uppercase[CHOOSE i \in 1..26 : Lowercase[i] = c] ELSE c

\* s.lower()
lower(s) == [i \in 1..Len(s) |-> char_lower(s[i])]

\* s.title(): a cased character is upper-cased when it follows an uncased
\* one (or starts the string) and lower-cased otherwise.
title(s) ==
    [i \in 1..Len(s) |->
        IF i > 1 /\ IsCased(s[i-1]) THEN char_lower(s[i]) ELSE char_upper(s[i])]

\* s[n:]
from(s, n) == SubSeq(s, n + 1, Len(s))

\* s[:len(p)] == p
startswith(s, p) == Len(p) <= Len(s) /\ SubSeq(s, 1, Len(p)) = p

\* s.find(sub) as a 1-based position, 0 when sub does not occur
find(s, sub) ==
    LET hits == {i \in 1..(Len(s) - Len(sub) + 1) :
                    SubSeq(s, i, i + Len(sub) - 1) = sub}
    IN  IF hits = {} THEN 0 ELSE CHOOSE i \in hits : \A j \in hits : i <= j

\* s.replace(old, new), old non-empty: every occurrence, left to right,
\* non-overlapping
RECURSIVE replace(_, _, _)
replace(s, old, new) ==
    LET i == find(s, old)
    IN  IF i = 0 THEN s
        ELSE SubSeq(s, 1, i - 1) \o new
                \o replace(SubSeq(s, i + Len(old), Len(s)), old, new)

\* s.split(sep), sep non-empty
RECURSIVE split(_, _)
split(s, sep) ==
    LET i == find(s, sep)
    IN  IF i = 0 THEN <<s>>
        ELSE <<SubSeq(s, 1, i - 1)>>
                \o split(SubSeq(s, i + Len(sep), Len(s)), sep)

\* s.split(): runs of whitespace separate the words, no empty word
words_of(s) == SelectSeq(split(s, <<" ">>), LAMBDA w : w # <<>>)

\* sep.join(parts)
RECURSIVE join(_, _)
join(sep, parts) ==
    IF parts = <<>> THEN <<>>
    ELSE IF Len(parts) = 1 THEN parts[1]
    ELSE parts[1] \o sep \o join(sep, Tail(parts))

\* x in list
InList(x, list) == \E i \in 1..Len(list) : list[i] = x

\* list.index(x) as a 1-based position
index(list, x) ==
    CHOOSE i \in 1..Len(list) :
        list[i] = x /\ \A j \in 1..(i - 1) : list[j] # x

Terminal == {".", "?", "!"}

---------------------------------------------------------------------------
(* split_sentences (lines 25-39) *)

\* re.sub(r' ([^ .])\.', r' \1~.~', text): leftmost non-overlapping matches
\* of a space, one character that is neither space nor period, a period.
RECURSIVE protect_initials(_)
protect_initials(t) ==
    IF t = <<>> THEN <<>>
    ELSE IF Len(t) >= 3 /\ t[1] = " " /\ t[2] \notin {" ", "."} /\ t[3] = "."
    THEN <<" ", t[2], "~", ".", "~">> \o protect_initials(from(t, 3))
    ELSE <<t[1]>> \o protect_initials(from(t, 1))

\* line 36: [i.replace('~.~', '.') for i in sents]
RECURSIVE restore_periods(_)
restore_periods(ss) ==
    IF ss = <<>> THEN <<>>
    ELSE <<replace(Head(ss), <<"~",".","~">>, <<".">>)>>
            \o restore_periods(Tail(ss))

split_sentences(t) ==
    LET t1 == protect_initials(t)
        t2 == replace(t1, <<"I","n","c",".">>, <<"I","n","c","~",".","~">>)
        t3 == replace(t2, <<"!"," ">>, <<"."," ">>)
        t4 == replace(t3, <<"?"," ">>, <<"."," ">>)
        s1 == split(t4, <<"."," ">>)
        s2 == restore_periods(s1)
        n  == Len(s2)
        l  == s2[n]
    IN  IF l = <<>> THEN Raise("IndexError")          \* sents[-1][-1]
        ELSE IF l[Len(l)] \in Terminal
        THEN Return(SubSeq(s2, 1, n - 1) \o <<SubSeq(l, 1, Len(l) - 1)>>)
        ELSE Return(s2)

---------------------------------------------------------------------------
(* DuckduckgoSkill.format_related (lines 61-115) *)

is_verb == <<" ","i","s"," ">>      \* self.is_verb (line 46)
in_word == <<"i","n"," ">>          \* self.in_word (line 47)

\* line 77: ans[-2:] == '..'
ends_in_two_periods(a) ==
    Len(a) >= 2 /\ a[Len(a) - 1] = "." /\ a[Len(a)] = "."

\* lines 78-79: while ans[-1] == '.': ans = ans[:-1]
RECURSIVE strip_periods(_)
strip_periods(a) ==
    IF a = <<>> THEN Raise("IndexError")
    ELSE IF a[Len(a)] = "." THEN strip_periods(SubSeq(a, 1, Len(a) - 1))
    ELSE Return(a)

\* lines 81-85: drop the last comma-separated phrase when its first word is
\* a start word
drop_last_phrase(a) ==
    LET phrases == split(a, <<",", " ">>)
        first   == join(<<",", " ">>, SubSeq(phrases, 1, Len(phrases) - 1))
        last    == phrases[Len(phrases)]
    IN  IF words_of(last) = <<>> THEN Raise("IndexError")   \* last.split()[0]
        ELSE IF InList(words_of(last)[1], translated_start_words)
        THEN Return(first)
        ELSE Return(a)

\* lines 86, 89: ans.split(' ')[-1]
last_word_of(a) == LET w == split(a, <<" ">>) IN w[Len(w)]

\* line 87: the while condition
strip_more(w) ==
    \/ InList(w, translated_start_words)
    \/ Len(w) >= 3 /\ SubSeq(w, Len(w) - 2, Len(w)) = <<"i","n","g">>

\* line 88: ans = ans.replace(' ' + last_word, '')
strip_last_word(a, w) == replace(a, <<" ">> \o w, <<>>)

\* lines 77-86: Return(ans) at the head of the while loop, or the
\* exception raised on the way; a sentence not ending in '..' skips the loop
truncated_head(a) ==
    LET s == strip_periods(a)
    IN  IF s.kind = "raise" THEN s ELSE drop_last_phrase(s.value)

\* re.search(r'\(([a-z ]+)\)', ans): the position of the leftmost '(' that
\* starts a match, 0 when there is none
category_paren(a) ==
    LET closes(i, j) == /\ j > i + 1
                        /\ a[j] = ")"
                        /\ \A k \in (i + 1)..(j - 1) : IsLower(a[k]) \/ a[k] = " "
        hits == {i \in 1..Len(a) :
                    a[i] = "(" /\ \E j \in 1..Len(a) : closes(i, j)}
    IN  IF hits = {} THEN 0 ELSE CHOOSE i \in hits : \A j \in hits : i <= j

\* match.group(1) for the match starting at position i
category_at(a, i) ==
    LET j == CHOOSE j \in (i + 1)..Len(a) :
                 a[j] = ")" /\ \A k \in (i + 1)..(j - 1) : a[k] # ")"
    IN  SubSeq(a, i + 1, j - 1)

\* lines 99-108: the first article (in list order) found in words at an
\* index no later than twice the query's word count splits the sentence
RECURSIVE insert_is_verb(_, _, _)
insert_is_verb(a, q, k) ==
    IF k > Len(translated_articles) THEN a
    ELSE LET words   == words_of(a)
             article == title(translated_articles[k])
         IN  IF InList(article, words)
                    /\ index(words, article) - 1 <= 2 * Len(words_of(q))
             THEN LET i    == index(words, article)
                      name == SubSeq(words, 1, i - 1)
                      desc == <<lower(words[i])>>
                                  \o SubSeq(words, i + 1, Len(words))
                  IN  join(<<" ">>, name) \o is_verb \o join(<<" ">>, desc)
             ELSE insert_is_verb(a, q, k + 1)

\* lines 113-115: a sentence that ends in no terminal mark gets a period
ensure_terminal_missing(a) ==
    IF a = <<>> THEN Raise("IndexError") ELSE Return(Str(a))

ensure_terminal(a) ==
    IF a = <<>> THEN Raise("IndexError")                       \* ans[-1]
    ELSE IF a[Len(a)] \notin Terminal THEN Return(Str(a \o <<".">>))
    ELSE Return(Str(a))

\* lines 91-115
finish_related(a, q) ==
    LET i     == category_paren(a)
        found == i # 0 /\ i <= Len(q) * 2          \* span(1) starts at i
        cat   == IF found THEN category_at(a, i) ELSE <<>>
        a1    == IF found THEN replace(a, <<"(">> \o cat \o <<")">>, <<"(", ")">>)
                 ELSE a
        a2    == insert_is_verb(a1, q, 1)
        a3    == IF found THEN replace(a2, <<"(", ")">>, in_word \o cat) ELSE a2
    IN  ensure_terminal(a3)

\* lines 87-89 run to the end: the loop's final ans, or Hang when an
\* iteration leaves ans (and so last_word) as it was
RECURSIVE strip_loop(_)
strip_loop(a) ==
    LET w == last_word_of(a)
    IN  IF ~strip_more(w) THEN Return(a)
        ELSE IF strip_last_word(a, w) = a THEN Hang
        ELSE strip_loop(strip_last_word(a, w))

\* the whole call
format_related(a, q) ==
    IF ~ends_in_two_periods(a) THEN finish_related(a, q)
    ELSE LET h == truncated_head(a)
         IN  IF h.kind = "raise" THEN h
             ELSE LET l == strip_loop(h.value)
                  IN  IF l.kind = "hang" THEN l ELSE finish_related(l.value, q)

---------------------------------------------------------------------------
(* DuckduckgoSkill.extract_topic (lines 165-179) *)

\* line 175: [i + ' ' for i in self.translated_articles] + ['']
RECURSIVE with_space(_)
with_space(articles) ==
    IF articles = <<>> THEN <<>>
    ELSE <<Head(articles) \o <<" ">>>> \o with_space(Tail(articles))

article_prefixes == with_space(translated_articles) \o << <<>> >>

\* line 176 with a space put between the question word and the verb
test_prefix_spaced(n, v, a) ==
    translated_question_words[n] \o <<" ">> \o translated_question_verbs[v]
        \o <<" ">> \o article_prefixes[a]

\* line 176: test = noun + verb + ' ' + article
test_prefix(n, v, a) ==
    translated_question_words[n] \o translated_question_verbs[v]
        \o <<" ">> \o article_prefixes[a]

\* the first article (in loop order) whose test starts q, for the pair
\* (n, v); 0 when there is none
first_article(q, n, v) ==
    LET hits == {a \in 1..Len(article_prefixes) :
                    startswith(q, test_prefix(n, v, a))}
    IN  IF hits = {} THEN 0 ELSE CHOOSE a \in hits : \A b \in hits : a <= b

\* the (noun, verb) pairs, in loop order, from position <<n, v>> on
pairs_from(n, v) ==
    {p \in (1..Len(translated_question_words))
              \X (1..Len(translated_question_verbs)) :
        p[1] > n \/ (p[1] = n /\ p[2] >= v)}

\* the first pair of `pairs` (in loop order) with a matching test; <<0, 0>>
\* when there is none
first_pair(q, pairs) ==
    LET hits == {p \in pairs : first_article(q, p[1], p[2]) # 0}
    IN  IF hits = {} THEN <<0, 0>>
        ELSE CHOOSE p \in hits :
                \A o \in hits : p[1] < o[1] \/ (p[1] = o[1] /\ p[2] <= o[2])

\* query[len(test):] for the pair p
after_prefix(q, p) ==
    from(q, Len(test_prefix(p[1], p[2], first_article(q, p[1], p[2]))))

extract_topic(q) ==
    LET p == first_pair(q, pairs_from(1, 1))
    IN  IF p = <<0, 0>> THEN q ELSE after_prefix(q, p)

---------------------------------------------------------------------------
(* DuckduckgoSkill.query_ddg (lines 117-163) *)

\* a ddg.Results: its type, answer (None or a text), abstract text and
\* related topics, each a text and a url
Results(ty, a, ab, rel) ==
    [kind |-> "Results", type |-> ty, answer |-> a, abstract |-> ab,
     related |-> rel]
Related(t) == [text |-> t, url |-> <<"u">>]

HASH == <<"H","A","S","H">>

\* the conditions of lines 151-152, 154, 159 and 162: the field of the
\* response the answer is taken from
chosen_field(r) ==
    IF r.answer # None /\ r.answer.text # <<>> /\ find(r.answer.text, HASH) = 0
    THEN "answer"
    ELSE IF Len(r.abstract) > 0 THEN "abstract"
    ELSE IF Len(r.related) > 0 /\ Len(r.related[1].text) > 0 THEN "related"
    ELSE "none"

\* lines 151-163: the answer chosen from a response
select_answer(r, q) ==
    CASE chosen_field(r) = "answer" ->
            Return(Str(q \o is_verb \o r.answer.text \o <<".">>))
      [] chosen_field(r) = "abstract" ->
            LET s == split_sentences(r.abstract)
            IN  IF s.kind = "raise" THEN s
                ELSE Return(Str(join(<<".", " ">>, s.value)))
      [] chosen_field(r) = "related" ->
            LET s == split_sentences(r.related[1].text)
            IN  IF s.kind = "raise" THEN s ELSE format_related(s.value[1], q)
      [] OTHER -> Return(None)

\* line 126 left out: the topic is never taken to be empty
no_topic_unchecked(q) == FALSE

\* line 126: len(query) == 0
no_topic(q) == Len(q) = 0

\* lines 141-142: the detail fetch is attempted
wants_detail(r) == r.type = "disambiguation" /\ Len(r.related) > 0

\* the HTTP calls: ddg.query (line 131) and requests.get (line 145)
ddg_query_call(q) == [call |-> "ddg.query", arg |-> q]
requests_get_call(r) ==
    [call |-> "requests.get", arg |-> r.related[1].url \o <<"?","o","=","x">>]

\* what requests.get and the parse of its content give (lines 145-149)
EmptyContent == [kind |-> "content", empty |-> TRUE]
BadContent == [kind |-> "content", empty |-> FALSE, parsed |-> None]
Content(r) == [kind |-> "content", empty |-> FALSE, parsed |-> r]

\* where the invocation stands once query_ddg's outcome is `a`
after_query(a) ==
    IF a.kind = "return" THEN "returned"
    ELSE IF a.kind = "raise" THEN "raised"
    ELSE "hung"

---------------------------------------------------------------------------
(* Inputs: the locale resources read by __init__ (lines 49-59), the       *)
(* utterances handed to the entry points and what the network answers     *)

MaxAbstractLen == 2
MaxRelatedPieces == 2
MaxSplitLen == 3
MaxTopicPieces == 3
MaxFormatPieces == 4

\* every concatenation of at most n of the pieces
RECURSIVE Concats(_, _)
Concats(pieces, n) ==
    IF n = 0 THEN {<<>>}
    ELSE Concats(pieces, n - 1)
            \cup {x \o p : x \in Concats(pieces, n - 1), p \in pieces}

Locale(qw, qv, ar, sw) ==
    [question_words |-> qw, question_verbs |-> qv, articles |-> ar,
     start_words |-> sw]

\* question verbs written without and with their leading space, and a list
\* holding a verb that extends another
PlainVerbs == Locale(<<<<"w","h","a","t">>>>, <<<<"i","s">>>>, <<<<"a">>, <<"t","h","e">>>>, <<<<"a","n","d">>>>)
SpacedVerbs == Locale(<<<<"w","h","a","t">>>>, <<<<" ","i","s">>>>, <<<<"a">>, <<"t","h","e">>>>, <<<<"a","n","d">>>>)
LongVerbs == Locale(<<<<"w","h","a","t">>, <<"w","h","o">>>>, <<<<" ","i","s">>, <<" ","i","s"," ","a","n">>>>, <<<<"a">>, <<"t","h","e">>>>, <<<<"a","n","d">>, <<"w","i","t","h">>>>)

\* DuckDuckGo.voc, sorted by decreasing length (line 54)
Vocab == <<<<"a","s","k"," ","d","u","c","k","y">>, <<"d","u","c","k","y">>>>

Earth == <<"e","a","r","t","h">>
WhatIsTheEarth == <<"w","h","a","t"," ","i","s"," ","t","h","e"," ","e","a","r","t","h">>
WhatIsAnEarth == <<"w","h","a","t"," ","i","s"," ","a","n"," ","e","a","r","t","h">>
WhatIs == <<"w","h","a","t"," ","i","s"," ">>
Ducky == <<"d","u","c","k","y">>
AskDuckyEarth == <<"a","s","k"," ","d","u","c","k","y"," ","w","h","a","t"," ","i","s"," ","t","h","e"," ","e","a","r","t","h">>

AskUtterances == {None, Str(Ducky), Str(AskDuckyEarth)}
CQSQueries == {Earth, WhatIs, WhatIsAnEarth}

FortyTwo == <<"4","2">>
AnswerFields == {None, Str(<<>>), Str(FortyTwo), Str(HASH), Str(HASH \o <<"1">>)}

AbstractTexts == Concats({<<"a">>, <<".">>, <<" ">>}, MaxAbstractLen)
RelatedTexts ==
    Concats({<<"A">>, <<" ">>, <<"i","n","g">>, <<".",".",".">>},
            MaxRelatedPieces)
        \cup {<<"A"," ","t","h","i","n","g"," ","b","e","i","n","g",".",".",".">>}

Types == {"disambiguation", "answer"}

\* responses mixing the three fields, and responses with one field only
MixedResults(types) ==
    {Results(ty, a, ab, rel) :
        ty \in types, a \in AnswerFields, ab \in {<<>>, <<"a", ".">>},
        rel \in {<<>>, <<Related(<<>>)>>, <<Related(<<"A", " ", "b", ".">>)>>}}
AbstractResults(types) ==
    {Results(ty, None, ab, <<>>) : ty \in types, ab \in AbstractTexts}
RelatedResults(types) ==
    {Results(ty, None, <<>>, <<Related(t)>>) : ty \in types, t \in RelatedTexts}

DetailResults ==
    {Results("answer", a, ab, rel) :
        a \in {None, Str(FortyTwo)}, ab \in {<<>>, <<"a", ".">>},
        rel \in {<<>>, <<Related(<<"A", " ", "b", ".">>)>>}}

\* ddg.query: an exception, or a response
PrimaryOutcomes ==
    {Raise("Exception")}
        \cup {Return(r) : r \in MixedResults(Types) \cup AbstractResults(Types)
                                  \cup RelatedResults(Types)}

\* requests.get and the parse: an exception of requests.get, an empty body,
\* a body ElementTree cannot parse, or a detailed response
DetailOutcomes ==
    {Raise("ConnectionError"), EmptyContent, BadContent}
        \cup {Content(r) : r \in DetailResults}

---------------------------------------------------------------------------
(* The skill: construction and the two entry points *)

\* __init__ (lines 44-59)
InitSkill(l) ==
    /\ translated_question_words = l.question_words
    /\ translated_question_verbs = l.question_verbs
    /\ translated_articles = l.articles
    /\ translated_start_words = l.start_words
    /\ sorted_vocab = Vocab

InitIdle ==
    /\ pc = "idle" /\ entry = "none" /\ utt = None
    /\ noun_i = 0 /\ verb_i = 0 /\ query = <<>>
    /\ primary = None /\ detail = None /\ response = None
    /\ answer = Return(None)
    /\ http_calls = <<>> /\ spoken = <<>> /\ result = None

InitNoCall ==
    /\ text = <<>> /\ sents = None /\ topic = None
    /\ abstract = <<>> /\ ans = <<>> /\ last_word = <<>>

Init ==
    /\ \E l \in {SpacedVerbs, LongVerbs} : InitSkill(l)
    /\ InitIdle
    /\ InitNoCall

skill == <<translated_question_words, translated_question_verbs,
           translated_articles, translated_start_words, sorted_vocab>>
calls == <<text, sents, topic, abstract, ans, last_word>>

\* the host runtime serializes the invocations: a new one starts when the
\* last one has returned or raised
CanInvoke == pc \in {"idle", "done", "raised"}

\* utt.strip()
RECURSIVE lstrip(_)
lstrip(s) == IF s # <<>> /\ s[1] = " " THEN lstrip(Tail(s)) ELSE s
RECURSIVE rstrip(_)
rstrip(s) ==
    IF s # <<>> /\ s[Len(s)] = " " THEN rstrip(SubSeq(s, 1, Len(s) - 1)) ELSE s
strip(s) == rstrip(lstrip(s))

\* lines 217-218: for voc in self.sorted_vocab: utt = utt.replace(voc, "")
RECURSIVE remove_vocab(_, _)
remove_vocab(u, k) ==
    IF k > Len(sorted_vocab) THEN u
    ELSE remove_vocab(replace(u, sorted_vocab[k], <<>>), k + 1)

\* lines 217-224: the topic handle_ask_ducky hands to query_ddg
ask_ducky_topic(u) ==
    LET u1 == extract_topic(strip(remove_vocab(u, 1)))
        u2 == replace(u1, <<"a","n"," ">>, <<>>)
        u3 == replace(u2, <<"a"," ">>, <<>>)
    IN  replace(u3, <<"t","h","e"," ">>, <<>>)

\* lines 210-227: handle_ask_ducky up to its call of query_ddg
HandleAskDucky(u) ==
    /\ CanInvoke
    /\ entry' = "handle_ask_ducky"
    /\ utt' = u
    /\ IF u = None
       THEN pc' = "done" /\ query' = <<>>
       ELSE pc' = "query_ddg" /\ query' = ask_ducky_topic(u.text)
    /\ noun_i' = 0 /\ verb_i' = 0
    /\ primary' = None /\ detail' = None /\ response' = None
    /\ answer' = Return(None)
    /\ http_calls' = <<>> /\ spoken' = <<>>
    /\ result' = None
    /\ UNCHANGED <<skill, calls>>

\* lines 196-207 from the pair after <<n, v>>: the next call of query_ddg,
\* or the return
CQSLoop(q, pairs) ==
    LET p == first_pair(q, pairs)
    IN  IF p # <<0, 0>>
        THEN /\ pc' = "query_ddg"
             /\ noun_i' = p[1] /\ verb_i' = p[2]
             /\ query' = after_prefix(q, p)
             /\ result' = None
        ELSE /\ pc' = "done"
             /\ result' = IF answer'.value # None /\ answer'.value.text # <<>>
                          THEN Return(<<q, "CQSMatchLevel.CATEGORY",
                                        answer'.value.text>>)
                          ELSE Return(None)
             /\ UNCHANGED <<noun_i, verb_i, query>>

\* lines 195-201: CQS_match_query_phrase up to its first call of query_ddg
CQSMatchQueryPhrase(q) ==
    /\ CanInvoke
    /\ entry' = "CQS_match_query_phrase"
    /\ utt' = Str(q)
    /\ answer' = Return(None)
    /\ CQSLoop(q, pairs_from(1, 1))
    /\ primary' = None /\ detail' = None /\ response' = None
    /\ http_calls' = <<>> /\ spoken' = <<>>
    /\ UNCHANGED <<skill, calls>>

\* lines 125-143 and, with no detail fetch, 151-163
QueryDdg ==
    /\ pc = "query_ddg"
    /\ IF no_topic(query)
       THEN /\ answer' = Return(None)
            /\ pc' = "returned"
            /\ UNCHANGED <<primary, response, http_calls>>
       ELSE \E r \in PrimaryOutcomes :
            /\ http_calls' = Append(http_calls, ddg_query_call(query))
            /\ primary' = r
            /\ IF r.kind = "raise"
               THEN /\ answer' = Return(None)
                    /\ pc' = "returned"
                    /\ UNCHANGED response
               ELSE /\ response' = r.value
                    /\ IF wants_detail(r.value)
                       THEN pc' = "requests_get" /\ UNCHANGED answer
                       ELSE /\ answer' = select_answer(r.value, query)
                            /\ pc' = after_query(answer')
    /\ detail' = None
    /\ UNCHANGED <<skill, calls, entry, utt, noun_i, verb_i, query, spoken,
                   result>>

\* lines 143-163: the detail fetch and the selection that follows it
DetailFetch ==
    /\ pc = "requests_get"
    /\ http_calls' = Append(http_calls, requests_get_call(response))
    /\ \E d \in DetailOutcomes :
        /\ detail' = d
        /\ IF d.kind = "raise"                  \* requests.get raised
           THEN answer' = d /\ UNCHANGED response
           ELSE IF d.empty                      \* if detailed_response:
           THEN /\ UNCHANGED response
                /\ answer' = select_answer(response, query)
           ELSE IF d.parsed = None              \* ElementTree.fromstring raised
           THEN answer' = Raise("ParseError") /\ UNCHANGED response
           ELSE /\ response' = d.parsed
                /\ answer' = select_answer(d.parsed, query)
    /\ pc' = after_query(answer')
    /\ UNCHANGED <<skill, calls, entry, utt, noun_i, verb_i, query, primary,
                   spoken, result>>

speak_dialog(key) == [call |-> "speak_dialog", arg |-> key]
speak(utterance) == [call |-> "speak", arg |-> utterance]

\* lines 228-230 with the two calls in the other order
speech_for_swapped(a) ==
    IF a.value # None
    THEN <<speak(a.value.text), speak_dialog("ddg.specific.response")>>
    ELSE <<>>

\* lines 228-230: what is spoken for query_ddg's return value
speech_for(a) ==
    IF a.value # None
    THEN <<speak_dialog("ddg.specific.response"), speak(a.value.text)>>
    ELSE <<>>

\* lines 228-230
HandleAskDuckySpeak ==
    /\ pc = "returned" /\ entry = "handle_ask_ducky"
    /\ spoken' = speech_for(answer)
    /\ pc' = "done"
    /\ result' = Return(None)
    /\ UNCHANGED <<skill, calls, entry, utt, noun_i, verb_i, query, primary,
                   detail, response, answer, http_calls>>

\* lines 196-207 after a call of query_ddg returned: `break` leaves the
\* loop over the articles, and the loops over verbs and nouns go on; the
\* locals of the call that returned are gone
CQSResume ==
    /\ pc = "returned" /\ entry = "CQS_match_query_phrase"
    /\ UNCHANGED answer
    /\ CQSLoop(utt.text, pairs_from(noun_i, verb_i) \ {<<noun_i, verb_i>>})
    /\ primary' = None /\ detail' = None /\ response' = None
    /\ UNCHANGED <<skill, calls, entry, utt, http_calls, spoken>>

Next ==
    \/ \E u \in AskUtterances : HandleAskDucky(u)
    \/ \E q \in CQSQueries : CQSMatchQueryPhrase(q)
    \/ QueryDdg
    \/ DetailFetch
    \/ HandleAskDuckySpeak
    \/ CQSResume

Spec == Init /\ [][Next]_vars

---------------------------------------------------------------------------
(* split_sentences called on its own *)

Tolkien == <<"J","."," ","R","."," ","R","."," ","T","o","l","k","i","e","n"," ","w","a","s"," ","a","n"," ","a","u","t","h","o","r",".">>
TolkienSentence == <<"J","."," ","R","."," ","R","."," ","T","o","l","k","i","e","n"," ","w","a","s"," ","a","n"," ","a","u","t","h","o","r">>
Acme == <<"A","c","m","e"," ","I","n","c","."," ","m","a","k","e","s"," ","w","i","d","g","e","t","s",".">>
AcmeSentence == <<"A","c","m","e"," ","I","n","c","."," ","m","a","k","e","s"," ","w","i","d","g","e","t","s">>

SplitTexts ==
    Concats({<<"J">>, <<" ">>, <<".">>, <<"?">>}, MaxSplitLen)
        \cup {Tolkien, Acme}

InitSplit ==
    /\ InitSkill(SpacedVerbs)
    /\ InitIdle
    /\ text \in SplitTexts
    /\ sents = None /\ topic = None
    /\ abstract = <<>> /\ ans = <<>> /\ last_word = <<>>

SplitSentences ==
    /\ sents = None
    /\ sents' = split_sentences(text)
    /\ UNCHANGED <<skill, pc, entry, utt, noun_i, verb_i, query, primary,
                   detail, response, answer, http_calls, spoken, result,
                   text, topic, abstract, ans, last_word>>

NextSplit == SplitSentences

SpecSplit == InitSplit /\ [][NextSplit]_vars

---------------------------------------------------------------------------
(* extract_topic called on its own *)

TopicQueries ==
    Concats({<<"w","h","a","t">>, <<" ","i","s"," ">>, <<"i","s"," ">>, <<"t","h","e"," ">>, Earth}, MaxTopicPieces)
        \cup {WhatIsTheEarth}

InitTopic ==
    /\ \E l \in {PlainVerbs, SpacedVerbs, LongVerbs} : InitSkill(l)
    /\ pc = "idle" /\ entry = "none" /\ utt = None
    /\ noun_i = 0 /\ verb_i = 0
    /\ query \in TopicQueries
    /\ primary = None /\ detail = None /\ response = None
    /\ answer = Return(None)
    /\ http_calls = <<>> /\ spoken = <<>> /\ result = None
    /\ InitNoCall

ExtractTopic ==
    /\ topic = None
    /\ topic' = Str(extract_topic(query))
    /\ UNCHANGED <<skill, pc, entry, utt, noun_i, verb_i, query, primary,
                   detail, response, answer, http_calls, spoken, result,
                   text, sents, abstract, ans, last_word>>

NextTopic == ExtractTopic

SpecTopic == InitTopic /\ [][NextTopic]_vars

---------------------------------------------------------------------------
(* format_related called on its own, one loop iteration a step *)

FormatAbstracts ==
    Concats({<<"S","o","m","e","t","h","i","n","g">>, <<" ">>, <<"a","n","d">>, <<",", " ">>, <<".", ".">>, <<"A">>,
             <<"(","x",")">>}, MaxFormatPieces)

InitFormat ==
    /\ \E l \in {SpacedVerbs, LongVerbs} : InitSkill(l)
    /\ pc = "format_related" /\ entry = "none" /\ utt = None
    /\ noun_i = 0 /\ verb_i = 0
    /\ query = Earth
    /\ primary = None /\ detail = None /\ response = None
    /\ answer = Return(None)
    /\ http_calls = <<>> /\ spoken = <<>> /\ result = None
    /\ text = <<>> /\ sents = None /\ topic = None
    /\ abstract \in FormatAbstracts
    /\ ans = abstract /\ last_word = <<>>

frame == <<skill, entry, utt, noun_i, verb_i, query, primary, detail,
           response, http_calls, spoken, result, text, sents, topic,
           abstract>>

\* lines 74-86: up to the head of the while loop
FormatRelatedHead ==
    /\ pc = "format_related"
    /\ IF ~ends_in_two_periods(ans)
       THEN /\ answer' = finish_related(ans, query)
            /\ pc' = after_query(answer')
            /\ UNCHANGED <<ans, last_word>>
       ELSE LET h == truncated_head(ans)
            IN  IF h.kind = "raise"
                THEN /\ answer' = h
                     /\ pc' = "raised"
                     /\ UNCHANGED <<ans, last_word>>
                ELSE /\ ans' = h.value
                     /\ last_word' = last_word_of(h.value)
                     /\ pc' = "while"
                     /\ UNCHANGED answer
    /\ UNCHANGED frame

\* lines 87-89: one iteration of the while loop
FormatRelatedStrip ==
    /\ pc = "while"
    /\ strip_more(last_word)
    /\ ans' = strip_last_word(ans, last_word)
    /\ last_word' = last_word_of(ans')
    /\ UNCHANGED <<pc, answer, frame>>

\* lines 87, 91-115: the loop is left and the sentence finished
FormatRelatedFinish ==
    /\ pc = "while"
    /\ ~strip_more(last_word)
    /\ answer' = finish_related(ans, query)
    /\ pc' = after_query(answer')
    /\ UNCHANGED <<ans, last_word, frame>>

NextFormat == FormatRelatedHead \/ FormatRelatedStrip \/ FormatRelatedFinish

SpecFormat == InitFormat /\ [][NextFormat]_vars

---------------------------------------------------------------------------
(* Properties *)

\* query_ddg has ended (returned, raised, or hangs) after a selection on
\* `response`
Selected ==
    /\ pc \in {"returned", "raised", "hung"}
    /\ response # None
    /\ detail.kind # "raise" /\ detail # BadContent

\* C1: query_ddg selects its result in strict priority order on the
\* (possibly replaced) response: a direct answer that is present, non-empty
\* and free of the placeholder "HASH" gives "<topic> is <answer>.";
\* otherwise a non-empty abstract gives its sentences rejoined with ". ";
\* otherwise a non-empty first related text gives its first sentence passed
\* through format_related; otherwise no answer.
C1_PriorityChain ==
    Selected =>
        IF /\ response.answer # None
           /\ response.answer.text # <<>>
           /\ find(response.answer.text, <<"H","A","S","H">>) = 0
        THEN answer = Return(Str(query \o <<" ","i","s"," ">>
                                    \o response.answer.text \o <<".">>))
        ELSE IF response.abstract # <<>>
        THEN LET s == split_sentences(response.abstract)
             IN  /\ s.kind = "return"
                 /\ answer = Return(Str(join(<<".", " ">>, s.value)))
        ELSE IF response.related # <<>> /\ response.related[1].text # <<>>
        THEN LET s == split_sentences(response.related[1].text)
             IN  /\ s.kind = "return"
                 /\ answer.kind = "return"
                 /\ answer = format_related(s.value[1], query)
        ELSE answer = Return(None)

EndsInTerminal(s) == s # <<>> /\ s[Len(s)] \in Terminal

\* C2 as stated: every non-null answer query_ddg returns, through any of
\* the three branches, is non-empty and ends in '.', '?' or '!'.
C2_EveryAnswerTerminated ==
    (pc = "returned" /\ answer.value # None)
        => EndsInTerminal(answer.value.text)

\* C2 as amended: every non-null answer query_ddg returns through the
\* direct-answer branch or the related-topic branch is non-empty and ends
\* in '.', '?' or '!'.
C2_AnswerOrRelatedTerminated ==
    (pc = "returned" /\ response # None /\ answer.value # None
        /\ chosen_field(response) # "abstract")
        => EndsInTerminal(answer.value.text)

C2_Witness ==
    /\ pc = "returned" /\ response # None /\ answer.value # None
    /\ chosen_field(response) = "related"
    /\ EndsInTerminal(answer.value.text)

\* C3: when the primary result is a disambiguation with a related entry and
\* the detail fetch throws, returns an unparseable body or returns an empty
\* body, query_ddg keeps the original result and ends as the priority chain
\* on it ends; the failure does not reach the caller.
C3_DetailFailureFallsBack ==
    (pc \in {"returned", "raised", "hung"} /\ detail # None
        /\ (detail.kind = "raise" \/ detail = EmptyContent
                \/ detail = BadContent))
        => /\ response = primary.value
           /\ answer = select_answer(primary.value, query)

\* C4: an invocation of an entry point performs at most two HTTP calls: at
\* most one primary query and then at most one detail fetch, the latter
\* only after the primary query returned a disambiguation result with a
\* related entry.
C4_AtMostTwoCalls ==
    /\ Len(http_calls) <= 2
    /\ Len(http_calls) >= 1 => http_calls[1].call = "ddg.query"
    /\ Len(http_calls) >= 2 => http_calls[2].call = "requests.get"
    /\ pc = "requests_get" => wants_detail(response)

\* C5: query_ddg returns no answer without raising when the topic is empty,
\* making no remote call, and when the primary call raises, making no
\* remote call after the failed one.
C5_NoAnswerNoCall ==
    [][(pc = "query_ddg") =>
          /\ query = <<>> => /\ pc' = "returned"
                             /\ answer' = Return(None)
                             /\ http_calls' = http_calls
          /\ primary'.kind = "raise" =>
                /\ pc' = "returned"
                /\ answer' = Return(None)
                /\ http_calls' = Append(http_calls, ddg_query_call(query))]_vars

C5_Witness ==
    /\ pc = "returned" /\ primary.kind = "raise"
    /\ answer = Return(None) /\ Len(http_calls) = 1

\* q starts with no question word + question verb + " " + optional article
NoPrefix(q) ==
    \A n \in 1..Len(translated_question_words) :
    \A v \in 1..Len(translated_question_verbs) :
        LET head == translated_question_words[n]
                        \o translated_question_verbs[v] \o <<" ">>
        IN  /\ ~startswith(q, head)
            /\ \A a \in 1..Len(translated_articles) :
                  ~startswith(q, head \o translated_articles[a] \o <<" ">>)

WordLists ==
    Locale(translated_question_words, translated_question_verbs,
           translated_articles, translated_start_words)

\* C6 as stated: with question words {"what"}, question verbs {"is"} and
\* articles {"a", "the"}, extract_topic maps "what is the earth" to
\* "earth"; and an utterance that starts with no prefix made of a question
\* word, a question verb and an optional article is returned unchanged.
C6_PlainVerbGivesEarth ==
    topic # None =>
        /\ (WordLists = PlainVerbs /\ query = WhatIsTheEarth)
              => topic = Str(Earth)
        /\ NoPrefix(query) => topic = Str(query)

\* C6 as amended: with question words {"what"}, question verbs {" is"}
\* (the verb written with its leading space) and articles {"a", "the"},
\* extract_topic maps "what is the earth" to "earth", and with question
\* verbs {"is"} it returns that utterance unchanged; and an utterance that
\* starts with no prefix made of a question word, a question verb and an
\* optional article is returned unchanged.
C6_SpacedVerbGivesEarth ==
    topic # None =>
        /\ (WordLists = SpacedVerbs /\ query = WhatIsTheEarth)
              => topic = Str(Earth)
        /\ (WordLists = PlainVerbs /\ query = WhatIsTheEarth)
              => topic = Str(WhatIsTheEarth)
        /\ NoPrefix(query) => topic = Str(query)

C6_Witness ==
    /\ WordLists = SpacedVerbs /\ query = WhatIsTheEarth
    /\ topic = Str(Earth)

\* C7: split_sentences does not split at the period of a single-letter
\* initial or of "Inc.": "J. R. R. Tolkien was an author." and
\* "Acme Inc. makes widgets." each give one sentence, the text without its
\* final period.
C7_InitialsNotSplit ==
    sents # None =>
        /\ text = Tolkien => sents = Return(<<TolkienSentence>>)
        /\ text = Acme => sents = Return(<<AcmeSentence>>)

\* C8: handle_ask_ducky speaks exactly when query_ddg produced an answer:
\* then the lead-in dialog and after it the answer, each once; with no
\* answer or no utterance nothing is spoken and no exception leaves the
\* handler.
C8_SpeaksIffAnswer ==
    entry = "handle_ask_ducky" =>
        /\ pc = "done" =>
              spoken = IF utt # None /\ answer.value # None
                       THEN <<speak_dialog("ddg.specific.response"),
                              speak(answer.value.text)>>
                       ELSE <<>>
        /\ pc # "done" => spoken = <<>>
        /\ (utt = None \/ answer = Return(None)) => pc # "raised"

C8_Witness ==
    /\ entry = "handle_ask_ducky" /\ pc = "done"
    /\ answer.value # None /\ Len(spoken) = 2

\* C9: split_sentences raises no IndexError on any text, the empty text and
\* a text ending in ". ", "? " or "! " included: it returns a list of
\* sentences.
C9_NoIndexError == sents # None => sents.kind = "return"

\* C10: in format_related every iteration of the loop that strips trailing
\* words makes progress, so the loop ends and the function reaches its
\* return.
C10_StripMakesProgress ==
    (pc = "while" /\ strip_more(last_word))
        => Len(strip_last_word(ans, last_word)) < Len(ans)

===========================================================================
